---------------------------- MODULE Spec2Model ----------------------------
(***************************************************************************)
(* Open-Meteo Solar Forecast integration: the coordinator's construction   *)
(* (coordinate cleaning and validation), its refresh cycle                 *)
(* (_async_update_data: forecast estimate, cloud-cover fetch, adjustment,  *)
(* publication by the update coordinator) and the cloud-cover debug        *)
(* sensor's reading.                                                       *)
(*                                                                         *)
(* Numbers.  Python floats are modelled by exact rationals [n, d] in       *)
(* lowest terms (d > 0), so that 1.0 - (c / 100.0 * 0.7) is the rational   *)
(* 1 - 7c/1000.  Coordinates are integers counting thousandths of a        *)
(* degree.  A timestamp is the number of whole hours since midnight of the *)
(* forecast's first day, so timestamp.hour is ts % 24.                     *)
(***************************************************************************)
EXTENDS Integers, Sequences, FiniteSets, TLC

VARIABLES
    entry,                \* entry.data: [latitude, longitude], raw configured values
    setup,                \* "new" | "ready" | "failed": outcome of __init__
    init_error,           \* the error __init__ raised, or "none"
    forecast,             \* self.forecast: None or [latitude, longitude]
    network_calls,        \* number of network requests issued so far
    url,                  \* the last cloud-cover URL requested: None or [latitude, longitude]
    pc,                   \* position of _async_update_data: "Idle" | "estimate" | "cloud_cover" | "adjust"
    estimate,             \* the local `estimate` of the running cycle
    baseline,             \* history: `estimate` as self.forecast.estimate() returned it
    cloud_cover_data,     \* the local `cloud_cover_data` of the running cycle
    data,                 \* coordinator.data: the published estimate, or None
    last_update_success,  \* coordinator.last_update_success
    raised,               \* what the last finished cycle raised: None or [kind, cause]
    published_diag        \* history: debug-sensor readings seen after a degraded / an adjusted cycle

vars == << entry, setup, init_error, forecast, network_calls, url, pc, estimate,
           baseline, cloud_cover_data, data, last_update_success, raised,
           published_diag >>

\* Python's None where an object (a record here) is expected
None == [none |-> TRUE]

\* A JSON null inside the hourly.cloud_cover array, which response.json()
\* turns into None; the numbers of the array are >= 0.
Null == -1

(***************************************************************************)
(* Bounds of the model                                                     *)
(***************************************************************************)
\* longest cloud-cover series drawn (the code slices the first 24 entries)
MaxSeriesLen == 25

\* network requests after which no further refresh is triggered
MaxCalls == 4

(***************************************************************************)
(* Exact arithmetic standing for the float arithmetic of the code          *)
(***************************************************************************)
Abs(x) == IF x < 0 THEN -x ELSE x

\* Euclid's algorithm
GCD[a \in Nat, b \in Nat] == IF b = 0 THEN a ELSE GCD[b, a % b]

\* The operations on rationals are functions, so that their arguments are
\* evaluated once.
Rational == [n : Int, d : Int]

\* the rational n/d in lowest terms, d > 0
Rat[n \in Int, d \in Int] ==
    LET g == GCD[Abs(n), Abs(d)]
        s == IF d < 0 THEN -1 ELSE 1
    IN  [n |-> (s * n) \div g, d |-> (s * d) \div g]

RInt(k) == [n |-> k, d |-> 1]

\* a * b, cross-reduced first so that intermediate products stay small
RMul[a \in Rational, b \in Rational] ==
    LET x == Rat[a.n, b.d]
        y == Rat[b.n, a.d]
    IN  Rat[x.n * y.n, x.d * y.d]

RSub[a \in Rational, b \in Rational] == Rat[a.n * b.d - b.n * a.d, a.d * b.d]

RDiv[a \in Rational, b \in Rational] == RMul[a, [n |-> b.d, d |-> b.n]]

Min(S) == CHOOSE x \in S : \A y \in S : x <= y

\* timestamp.hour
Hour(ts) == ts % 24

\* sum(xs) over a sequence of integers
RECURSIVE SumTo(_, _)
SumTo(xs, i) == IF i = 0 THEN 0 ELSE xs[i] + SumTo(xs, i - 1)

SumSeq(xs) == SumTo(xs, Len(xs))

\* xs[:k]
Prefix(xs, k) == SubSeq(xs, 1, IF Len(xs) < k THEN Len(xs) ELSE k)

HasNull(xs) == \E i \in 1..Len(xs) : xs[i] = Null

NoError == "none"

(***************************************************************************)
(* _adjust_estimate_with_cloud_cover                                       *)
(***************************************************************************)
\* the factor with no damping constant: 100% cloud cover cuts everything
AdjustmentFactor_FullCut(percent) ==
    RSub[RInt(1), RDiv[percent, RInt(100)]]

\* the factor with a damping constant of 0.5
AdjustmentFactor_HalfDamping(percent) ==
    RSub[RInt(1), RMul[RDiv[percent, RInt(100)], Rat[5, 10]]]

\* a factor that takes the cloud cover as a fraction already: 1 - cover * 0.7
AdjustmentFactor_NoPercent(percent) ==
    RSub[RInt(1), RMul[percent, Rat[7, 10]]]

\* adjustment_factor = 1.0 - (cloud_cover_percent / 100.0 * 0.7)
AdjustmentFactor(percent) ==
    RSub[RInt(1), RMul[RDiv[percent, RInt(100)], Rat[7, 10]]]

\* the lookup that wraps the hour around the series, hour % len(series)
CloudCoverAt_Wrapped(series, hour_index) ==
    [found |-> TRUE, percent |-> series[(hour_index % Len(series)) + 1]]

\* `if 0 <= hour_index < len(cloud_cover_data): cloud_cover_data[hour_index]`
\* (Python indexes from 0): the entry used for an hour, if any
CloudCoverAt(series, hour_index) ==
    IF 0 <= hour_index /\ hour_index < Len(series)
    THEN [found |-> TRUE, percent |-> series[hour_index + 1]]
    ELSE [found |-> FALSE, percent |-> 0]

\* One `for timestamp, value in list(mapping.items())` loop over a
\* timestamp-keyed mapping, in the mapping's (chronological) order.  It stops
\* at the first entry whose cloud-cover value is null (None / 100.0 raises
\* TypeError), leaving the entries before it already rewritten.
RECURSIVE AdjustHourly(_, _, _)
AdjustHourly(mapping, series, todo) ==
    IF todo = {} THEN [map |-> mapping, error |-> NoError]
    ELSE LET timestamp == Min(todo)
             cc == CloudCoverAt(series, Hour(timestamp))
         IN  IF ~cc.found THEN AdjustHourly(mapping, series, todo \ {timestamp})
             ELSE IF cc.percent = Null THEN [map |-> mapping, error |-> "TypeError"]
             ELSE AdjustHourly(
                    [mapping EXCEPT ![timestamp] =
                        RMul[@, AdjustmentFactor(RInt(cc.percent))]],
                    series, todo \ {timestamp})

\* day_cloud_cover = sum(cloud_cover_data[:24]) / 24
DayCloudCover(series) == Rat[SumSeq(Prefix(series, 24)), 24]

\* The `for day, wh in list(estimate.wh_days.items())` loop: sum() raises
\* TypeError on a null among the first 24 entries, in the first iteration.
AdjustDaily(mapping, series) ==
    IF DOMAIN mapping = {} THEN [map |-> mapping, error |-> NoError]
    ELSE IF HasNull(Prefix(series, 24)) THEN [map |-> mapping, error |-> "TypeError"]
    ELSE [map |-> [day \in DOMAIN mapping |->
                     RMul[mapping[day], AdjustmentFactor(DayCloudCover(series))]],
          error |-> NoError]

\* Lines 119-174: the three loops, run when the series is not empty.  The
\* result is the estimate they leave behind (they rewrite the estimate in
\* place) and the error raised, if any.
AdjustLoops(est, series) ==
    LET w == AdjustHourly(est.watts, series, DOMAIN est.watts)
        e1 == [est EXCEPT !.watts = w.map]
    IN  IF w.error # NoError THEN [estimate |-> e1, error |-> w.error]
        ELSE LET p == AdjustHourly(est.wh_period, series, DOMAIN est.wh_period)
                 e2 == [e1 EXCEPT !.wh_period = p.map]
             IN  IF p.error # NoError THEN [estimate |-> e2, error |-> p.error]
                 ELSE LET d == AdjustDaily(est.wh_days, series)
                      IN  [estimate |-> [e2 EXCEPT !.wh_days = d.map],
                           error |-> d.error]

\* The early return dropped and the daily mean taken over len(series): the
\* division by zero an empty series then causes.
adjust_estimate_with_cloud_cover_NoEmptyGuard(est, series) ==
    IF series = <<>> /\ DOMAIN est.wh_days # {}
    THEN [estimate |-> est, error |-> "ZeroDivisionError"]
    ELSE AdjustLoops(est, series)

\* The whole method: `if not cloud_cover_data: return`, then the loops.
adjust_estimate_with_cloud_cover(est, series) ==
    IF series = <<>> THEN [estimate |-> est, error |-> NoError]
    ELSE AdjustLoops(est, series)

(***************************************************************************)
(* clean_value and OpenMeteoSolarForecastDataUpdateCoordinator.__init__    *)
(*                                                                         *)
(* A configured value is [shape |-> "number", value |-> v],                *)
(* [shape |-> "string", chars |-> s] or [shape |-> "sequence", items |-> q].*)
(* A string is a sequence of tokens: a bracket [ch |-> "["] / [ch |-> "]"],*)
(* other text [ch |-> "x"], or a decimal numeral [num |-> v].              *)
(***************************************************************************)
LBracket == [ch |-> "["]
RBracket == [ch |-> "]"]
Numeral(v) == [num |-> v]
IsBracket(tok) == tok = LBracket \/ tok = RBracket

\* value.strip('[]'): leading and trailing bracket characters removed
RECURSIVE LStrip(_)
LStrip(chars) ==
    IF chars # <<>> /\ IsBracket(Head(chars)) THEN LStrip(Tail(chars)) ELSE chars

RECURSIVE RStrip(_)
RStrip(chars) ==
    IF chars # <<>> /\ IsBracket(chars[Len(chars)])
    THEN RStrip(SubSeq(chars, 1, Len(chars) - 1)) ELSE chars

Strip(chars) == RStrip(LStrip(chars))

\* float(value): of a number, of a string (one numeral and nothing else), of
\* anything else (TypeError)
ToFloat(value) ==
    IF value.shape = "number" THEN [ok |-> TRUE, value |-> value.value, error |-> NoError]
    ELSE IF value.shape = "string"
    THEN IF Len(value.chars) = 1 /\ DOMAIN value.chars[1] = {"num"}
         THEN [ok |-> TRUE, value |-> value.chars[1].num, error |-> NoError]
         ELSE [ok |-> FALSE, value |-> 0, error |-> "ValueError"]
    ELSE [ok |-> FALSE, value |-> 0, error |-> "TypeError"]

\* round(x, 2) on thousandths of a degree: the nearest hundredth, a tie
\* going to the even hundredth
Round2(x) ==
    LET q == x \div 10
        r == x % 10
    IN  IF r < 5 THEN q * 10
        ELSE IF r > 5 THEN (q + 1) * 10
        ELSE IF q % 2 = 0 THEN q * 10 ELSE (q + 1) * 10

\* str(x) of a float, and the configured-value form of a string
Str(x) == << Numeral(x) >>
AsString(chars) == [shape |-> "string", chars |-> chars]

\* clean_value(value): the string of the rounded float, or the error raised
clean_value(value) ==
    LET stripped == IF value.shape = "string"
                    THEN [value EXCEPT !.chars = Strip(@)] ELSE value
        f == ToFloat(stripped)
    IN  IF f.ok THEN [ok |-> TRUE, str |-> Str(Round2(f.value)), error |-> NoError]
        ELSE [ok |-> FALSE, str |-> <<>>, error |-> f.error]

\* `-90 <= float(latitude) <= 90` and `-180 <= float(longitude) <= 180`
LatitudeOK(x) == -90000 <= x /\ x <= 90000
LongitudeOK(x) == -180000 <= x /\ x <= 180000

\* __init__, lines 38-74: what it leaves in [setup, init_error, forecast]
CoordinatorOutcome(e) ==
    LET latitude == clean_value(e.latitude)
        longitude == clean_value(e.longitude)
    IN  IF ~latitude.ok
        THEN [setup |-> "failed", init_error |-> latitude.error, forecast |-> None]
        ELSE IF ~longitude.ok
        THEN [setup |-> "failed", init_error |-> longitude.error, forecast |-> None]
        ELSE IF ~LatitudeOK(ToFloat(AsString(latitude.str)).value)
                \/ ~LongitudeOK(ToFloat(AsString(longitude.str)).value)
        THEN [setup |-> "failed", init_error |-> "ValueError", forecast |-> None]
        ELSE [setup |-> "ready", init_error |-> NoError,
              forecast |-> [latitude |-> ToFloat(AsString(latitude.str)).value,
                            longitude |-> ToFloat(AsString(longitude.str)).value]]

(***************************************************************************)
(* OpenMeteoSolarCloudCoverDebugSensor                                     *)
(***************************************************************************)
\* The attributes a coordinator object has: those __init__ sets and those the
\* update coordinator keeps.  Nothing in the coordinator assigns
\* adjustment_stats, original_values or cloud_cover_data on self.
CoordinatorAttributes ==
    {"config_entry", "forecast", "data", "last_update_success", "update_interval"}

\* native_value: f"{adjustment:.1f}%" of adjustment_stats when the coordinator
\* has that attribute, "No data" otherwise
DebugNativeValue ==
    IF "adjustment_stats" \in CoordinatorAttributes THEN "0.0%" ELSE "No data"

\* extra_state_attributes: the keys of the attribute dictionary
DebugAttributes(published) ==
    IF published = None THEN {"status"}
    ELSE (IF "original_values" \in CoordinatorAttributes
          THEN {"sample_watts", "sample_wh_period"} ELSE {})
         \cup (IF "adjustment_stats" \in CoordinatorAttributes
               THEN {"adjustment_stats"} ELSE {})
         \cup (IF "cloud_cover_data" \in CoordinatorAttributes
               THEN {"hourly_cloud_cover", "cloud_cover_formula"} ELSE {})

\* what a reader of the debug sensor sees
DebugReading(published) ==
    [native_value |-> DebugNativeValue, attributes |-> DebugAttributes(published)]

(***************************************************************************)
(* _async_update_data: the refresh cycle                                   *)
(***************************************************************************)
\* a boundary that lets the original error through
UpdateBoundary_Reraise(cause) == [kind |-> cause, cause |-> NoError]

\* `except Exception as error: raise OpenMeteoSolarForecastUpdateFailed(...)
\* from error`
UpdateBoundary(cause) == [kind |-> "UpdateFailed", cause |-> cause]

\* A failed cycle that drops the published estimate
Fail_ClearsData(cause) ==
    /\ pc' = "Idle"
    /\ raised' = [kind |-> "UpdateFailed", cause |-> cause]
    /\ last_update_success' = FALSE
    /\ data' = None
    /\ UNCHANGED published_diag

\* The cycle ends by raising: the update coordinator keeps coordinator.data
\* and records the failure.
Fail(cause) ==
    /\ pc' = "Idle"
    /\ raised' = UpdateBoundary(cause)
    /\ last_update_success' = FALSE
    /\ UNCHANGED << data, published_diag >>

\* __init__ runs once per config entry
CoordinatorInit ==
    /\ setup = "new"
    /\ LET out == CoordinatorOutcome(entry)
       IN  /\ setup' = out.setup
           /\ init_error' = out.init_error
           /\ forecast' = out.forecast
    /\ UNCHANGED << entry, network_calls, url, pc, estimate, baseline,
                    cloud_cover_data, data, last_update_success, raised,
                    published_diag >>

\* A refresh that adjusts the published estimate again instead of fetching
Trigger_SkipFetch ==
    /\ setup = "ready"
    /\ pc = "Idle"
    /\ network_calls < MaxCalls
    /\ pc' = "adjust"
    /\ estimate' = data
    /\ baseline' = data
    /\ cloud_cover_data' = <<>>
    /\ raised' = None
    /\ network_calls' = network_calls + 1
    /\ UNCHANGED <<  entry, setup, init_error, forecast, url, data,
                    last_update_success, published_diag >>

\* The scheduler starts a refresh: _async_update_data runs up to
\* `await self.forecast.estimate()`, which sends the forecast request.  The
\* model keeps the locals of the last cycle until the next one starts.
Trigger ==
    /\ setup = "ready"
    /\ pc = "Idle"
    /\ network_calls < MaxCalls
    /\ pc' = "estimate"
    /\ network_calls' = network_calls + 1
    /\ estimate' = None
    /\ baseline' = None
    /\ cloud_cover_data' = <<>>
    /\ raised' = None
    /\ UNCHANGED << entry, setup, init_error, forecast, url, data,
                    last_update_success, published_diag >>

\* A forecast client that hands back the estimate object it gave last time
\* (the one already adjusted and published) instead of a new one.
EstimateReturns_ReusesPublished(e) ==
    /\ pc = "estimate"
    /\ estimate' = IF data = None THEN e ELSE data
    /\ baseline' = e
    /\ url' = [latitude |-> clean_value(AsString(Str(forecast.latitude))).str,
               longitude |-> clean_value(AsString(Str(forecast.longitude))).str]
    /\ network_calls' = network_calls + 1
    /\ pc' = "cloud_cover"
    /\ UNCHANGED << entry, setup, init_error, forecast, cloud_cover_data, data,
                    last_update_success, raised, published_diag >>

\* estimate() returns e; _fetch_hourly_cloud_cover runs up to
\* `self.forecast.session.get(url)`.
EstimateReturns(e) ==
    /\ pc = "estimate"
    /\ estimate' = e
    /\ baseline' = e
    /\ LET latitude == clean_value(AsString(Str(forecast.latitude)))
           longitude == clean_value(AsString(Str(forecast.longitude)))
       IN  IF latitude.ok /\ longitude.ok
           THEN /\ url' = [latitude |-> latitude.str, longitude |-> longitude.str]
                /\ network_calls' = network_calls + 1
                /\ pc' = "cloud_cover"
                /\ UNCHANGED << data, last_update_success, raised, published_diag >>
           ELSE /\ Fail(IF latitude.ok THEN longitude.error ELSE latitude.error)
                /\ UNCHANGED << url, network_calls >>
    /\ UNCHANGED << entry, setup, init_error, forecast, cloud_cover_data >>

\* estimate() raises
EstimateFails(error) ==
    /\ pc = "estimate"
    /\ Fail(error)
    /\ UNCHANGED << entry, setup, init_error, forecast, network_calls, url,
                    estimate, baseline, cloud_cover_data >>

\* data.get("hourly", {}).get("cloud_cover", []) of a parsed body
ExtractCloudCover(body) ==
    IF body.kind = "series" THEN body.cloud_cover ELSE <<>>

\* A cloud-cover fetch that swallows its failures: a non-success status or an
\* unreadable body is logged and the cycle goes on with an empty series.
CloudCoverResponds_SwallowsFailure(status, body) ==
    /\ pc = "cloud_cover"
    /\ cloud_cover_data' =
         IF status # 200 \/ body.kind = "malformed" THEN <<>> ELSE ExtractCloudCover(body)
    /\ pc' = "adjust"
    /\ UNCHANGED << entry, setup, init_error, forecast, network_calls, url,
                    estimate, baseline, data, last_update_success, raised,
                    published_diag >>

\* The cloud-cover response arrives with an HTTP status and a body:
\* [kind |-> "malformed"], [kind |-> "no_hourly"], [kind |-> "no_cloud_cover"]
\* or [kind |-> "series", cloud_cover |-> s].
CloudCoverResponds(status, body) ==
    /\ pc = "cloud_cover"
    /\ IF status # 200
       THEN Fail("Exception") /\ UNCHANGED cloud_cover_data
       ELSE IF body.kind = "malformed"
       THEN Fail("JSONDecodeError") /\ UNCHANGED cloud_cover_data
       ELSE /\ cloud_cover_data' = ExtractCloudCover(body)
            /\ pc' = "adjust"
            /\ UNCHANGED << data, last_update_success, raised, published_diag >>
    /\ UNCHANGED << entry, setup, init_error, forecast, network_calls, url,
                    estimate, baseline >>

\* session.get raises (connection error, timeout)
CloudCoverFails(error) ==
    /\ pc = "cloud_cover"
    /\ Fail(error)
    /\ UNCHANGED << entry, setup, init_error, forecast, network_calls, url,
                    estimate, baseline, cloud_cover_data >>

\* The task is cancelled while it awaits: CancelledError is no Exception, so
\* the except clause lets it through.
Cancel ==
    /\ pc \in {"estimate", "cloud_cover"}
    /\ pc' = "Idle"
    /\ raised' = [kind |-> "CancelledError", cause |-> NoError]
    /\ UNCHANGED << entry, setup, init_error, forecast, network_calls, url,
                    estimate, baseline, cloud_cover_data, data,
                    last_update_success, published_diag >>

\* A coordinator that adjusted the published object itself: what the loops
\* have rewritten is visible to the sensors even when the adjustment raises.
Publish_InPlace ==
    /\ pc = "adjust"
    /\ LET r == adjust_estimate_with_cloud_cover(estimate, cloud_cover_data)
       IN  /\ estimate' = r.estimate
           /\ data' = r.estimate
           /\ pc' = "Idle"
           /\ IF r.error # NoError
              THEN /\ raised' = UpdateBoundary(r.error)
                   /\ last_update_success' = FALSE
                   /\ UNCHANGED published_diag
              ELSE /\ last_update_success' = TRUE
                   /\ raised' = None
                   /\ published_diag' =
                        [published_diag EXCEPT
                           ![IF cloud_cover_data = <<>> THEN "degraded" ELSE "adjusted"] =
                               @ \cup {DebugReading(r.estimate)}]
    /\ UNCHANGED << entry, setup, init_error, forecast, network_calls, url,
                    baseline, cloud_cover_data >>

\* Lines 82-85, then the update coordinator: the adjustment runs on the local
\* estimate; the returned estimate becomes coordinator.data and the listeners
\* (the sensors) write their states.
Publish ==
    /\ pc = "adjust"
    /\ LET r == adjust_estimate_with_cloud_cover(estimate, cloud_cover_data)
       IN  /\ estimate' = r.estimate
           /\ IF r.error # NoError
              THEN Fail(r.error)
              ELSE /\ data' = r.estimate
                   /\ last_update_success' = TRUE
                   /\ raised' = None
                   /\ pc' = "Idle"
                   /\ published_diag' =
                        [published_diag EXCEPT
                           ![IF cloud_cover_data = <<>> THEN "degraded" ELSE "adjusted"] =
                               @ \cup {DebugReading(r.estimate)}]
    /\ UNCHANGED << entry, setup, init_error, forecast, network_calls, url,
                    baseline, cloud_cover_data >>

(***************************************************************************)
(* Inputs                                                                  *)
(***************************************************************************)
Est(w, p, d) == [watts |-> w, wh_period |-> p, wh_days |-> d]

\* the mappings of a baseline over given keys: watts by timestamp, watt-hours
\* by timestamp, watt-hours by day
WattsAt(K) == [ts \in K |-> RInt(IF ts % 2 = 0 THEN 1000 ELSE 2000)]
WhAt(K) == [ts \in K |-> RInt(IF ts % 2 = 0 THEN 250 ELSE 500)]
WhDay(K) == [day \in K |-> RInt(2400 * (day + 1))]

\* the cloud-cover values drawn: percentages, and a JSON null
CloudValues == {0, 50, 100, Null}

\* the series a, ..., a, b, ..., b of length n with k leading a's
TwoLevel(n, k, a, b) == [i \in 1..n |-> IF i <= k THEN a ELSE b]

\* inputs of the adjustment taken alone
AdjustBaselines ==
    { Est(WattsAt(wk), WhAt(pk), WhDay(dk)) :
        wk \in {{}, {0, 1}, {5, 23}, {1, 25, 47}},
        pk \in {{}, {0, 23}, {1, 24}},
        dk \in {{}, {0, 1}} }

AdjustSeries ==
    { TwoLevel(n, k, a, b) : n \in 0..MaxSeriesLen, k \in 0..MaxSeriesLen,
                             a \in CloudValues \ {Null}, b \in CloudValues }

\* inputs of the refresh cycle
CycleBaselines ==
    { Est(WattsAt({0, 1}), WhAt({0, 1}), WhDay({0})),
      Est(WattsAt({1, 23}), WhAt({23}), WhDay({0, 1})),
      Est(WattsAt({}), WhAt({}), WhDay({})) }

CycleSeries ==
    { <<>>, <<50, 100>>, <<100>>, <<0, Null>>, <<50, Null>>, TwoLevel(24, 12, 50, 0) }

Bodies(series) ==
    { [kind |-> "malformed"], [kind |-> "no_hourly"], [kind |-> "no_cloud_cover"] }
    \cup { [kind |-> "series", cloud_cover |-> s] : s \in series }

Statuses == {200, 404, 503}

ForecastErrors == {"OpenMeteoSolarForecastRequestError", "ClientError"}
TransportErrors == {"ClientError", "TimeoutError"}

Number(v) == [shape |-> "number", value |-> v]
Bare(v) == AsString(<< Numeral(v) >>)
Bracketed(v) == AsString(<< LBracket, Numeral(v), RBracket >>)
Singleton(v) == [shape |-> "sequence", items |-> << v >>]

Shapes(v) == { Number(v), Bare(v), Bracketed(v), Singleton(v) }

Garbage ==
    { AsString(<< [ch |-> "x"] >>), AsString(<< LBracket, RBracket >>),
      AsString(<< Numeral(52520), RBracket, Numeral(1) >>) }

LatitudeValues ==
    { -91000, -90010, -90004, -90000, 0, 52520, 52524, 52526, 89996, 90000,
      90004, 90006, 90010, 91000 }

LongitudeValues ==
    { -181000, -180004, -180000, 13410, 13414, 180000, 180004, 180006, 181000 }

InitEntries ==
    { [latitude |-> lat, longitude |-> Number(13410)] :
        lat \in UNION { Shapes(v) : v \in LatitudeValues } \cup Garbage }
    \cup { [latitude |-> Number(52520), longitude |-> lon] :
        lon \in UNION { Shapes(v) : v \in LongitudeValues } \cup Garbage }
    \cup { [latitude |-> Number(90004), longitude |-> Bracketed(180004)],
           [latitude |-> Bracketed(-91000), longitude |-> Number(181000)] }

CycleEntries ==
    { [latitude |-> Number(52524), longitude |-> Bracketed(13410)],
      [latitude |-> Bracketed(91000), longitude |-> Number(13410)] }

SampleEntry == [latitude |-> Number(52520), longitude |-> Number(13410)]

(***************************************************************************)
(* Specifications                                                          *)
(***************************************************************************)
\* the state right after the config entry is loaded, before __init__
InitWith(entries) ==
    /\ entry \in entries
    /\ setup = "new"
    /\ init_error = NoError
    /\ forecast = None
    /\ network_calls = 0
    /\ url = None
    /\ pc = "Idle"
    /\ estimate = None
    /\ baseline = None
    /\ cloud_cover_data = <<>>
    /\ data = None
    /\ last_update_success = TRUE
    /\ raised = None
    /\ published_diag = [k \in {"degraded", "adjusted"} |-> {}]

\* The refresh cycle, over the cycle inputs
Init == InitWith(CycleEntries)

Next ==
    \/ CoordinatorInit
    \/ Trigger
    \/ \E e \in CycleBaselines : EstimateReturns(e)
    \/ \E error \in ForecastErrors : EstimateFails(error)
    \/ \E status \in Statuses, body \in Bodies(CycleSeries) :
          CloudCoverResponds(status, body)
    \/ \E error \in TransportErrors : CloudCoverFails(error)
    \/ Cancel
    \/ Publish

Spec == Init /\ [][Next]_vars

\* Each await eventually returns or raises, and the synchronous tail runs.
CycleStep ==
    \/ \E e \in CycleBaselines : EstimateReturns(e)
    \/ \E error \in ForecastErrors : EstimateFails(error)
    \/ \E status \in Statuses, body \in Bodies(CycleSeries) :
          CloudCoverResponds(status, body)
    \/ \E error \in TransportErrors : CloudCoverFails(error)
    \/ Cancel
    \/ Publish

FairSpec == Spec /\ WF_vars(CycleStep)

\* Construction of the coordinator over the configured coordinates, followed
\* by refresh cycles on one baseline
InitCoordinates == InitWith(InitEntries)

NextCoordinates ==
    \/ CoordinatorInit
    \/ Trigger
    \/ \E e \in { Est(WattsAt({0, 1}), WhAt({0, 1}), WhDay({0})) } :
          EstimateReturns(e)
    \/ \E error \in {"ClientError"} : EstimateFails(error)
    \/ \E status \in {200, 503}, body \in Bodies({ <<50, 100>> }) :
          CloudCoverResponds(status, body)
    \/ Publish

SpecCoordinates == InitCoordinates /\ [][NextCoordinates]_vars

\* The adjustment taken alone: both fetches of a cycle have completed, with
\* any baseline and any series, and the adjustment step runs.
InitAdjust ==
    /\ entry = SampleEntry
    /\ setup = "ready"
    /\ init_error = NoError
    /\ forecast = CoordinatorOutcome(SampleEntry).forecast
    /\ network_calls = 2
    /\ url = [latitude |-> clean_value(SampleEntry.latitude).str,
              longitude |-> clean_value(SampleEntry.longitude).str]
    /\ pc = "adjust"
    /\ estimate \in AdjustBaselines
    /\ baseline = estimate
    /\ cloud_cover_data \in AdjustSeries
    /\ data = None
    /\ last_update_success = TRUE
    /\ raised = None
    /\ published_diag = [k \in {"degraded", "adjusted"} |-> {}]

NextAdjust == Publish

SpecAdjust == InitAdjust /\ [][NextAdjust]_vars

(***************************************************************************)
(* Properties                                                              *)
(***************************************************************************)
\* value * (1 - percent/100 * 0.7), written out as one fraction
Damped(value, percent_n, percent_d) ==
    Rat[value.n * (1000 * percent_d - 7 * percent_n), value.d * 1000 * percent_d]

\* the adjustment step of the last cycle ran to its end and published
Adjusted == pc = "Idle" /\ data # None /\ raised = None /\ baseline # None

HourlyFields == {"watts", "wh_period"}

\* C1: when the cloud-cover fetch answers with a non-success HTTP status, the
\* cycle ends raising UpdateFailed (caused by the status error), and the
\* published estimate is exactly what it was before: not cleared, not
\* replaced by the baseline of the failed cycle.
C1_HttpErrorKeepsPublished ==
    [][ (\E status \in Statuses \ {200}, body \in Bodies(CycleSeries) :
            CloudCoverResponds(status, body))
        => /\ pc' = "Idle"
           /\ raised' = [kind |-> "UpdateFailed", cause |-> "Exception"]
           /\ last_update_success' = FALSE
           /\ data' = data ]_vars

C1_Witness ==
    /\ pc = "Idle"
    /\ raised = [kind |-> "UpdateFailed", cause |-> "Exception"]
    /\ data # None
    /\ data # baseline
    /\ baseline # None

\* C2: with an empty cloud-cover series the adjustment raises nothing and
\* the estimate it leaves (and the one published) equals the baseline in
\* watts, wh_period and wh_days.
C2_EmptySeriesIsNoOp ==
    (pc = "Idle" /\ baseline # None /\ cloud_cover_data = <<>>)
    => /\ raised = None
       /\ data # None
       /\ data.watts = baseline.watts
       /\ data.wh_period = baseline.wh_period
       /\ data.wh_days = baseline.wh_days
       /\ estimate = baseline

C2_Witness ==
    /\ Adjusted
    /\ cloud_cover_data = <<>>
    /\ data = baseline
    /\ DOMAIN baseline.watts # {}
    /\ DOMAIN baseline.wh_period # {}
    /\ DOMAIN baseline.wh_days # {}

\* C3: after an adjustment with a non-empty series, every watts and
\* wh_period entry whose hour h is an index of the series equals the baseline
\* value times (1 - series[h]/100 * 0.7); watts {T0: 1000, T1: 2000} with the
\* series [50, 100] become {T0: 650, T1: 600}.
C3_HourlyFormula ==
    (Adjusted /\ cloud_cover_data # <<>>)
    => /\ \A ts \in DOMAIN baseline.watts :
            Hour(ts) < Len(cloud_cover_data)
            => data.watts[ts] =
                 Damped(baseline.watts[ts], cloud_cover_data[Hour(ts) + 1], 1)
       /\ \A ts \in DOMAIN baseline.wh_period :
            Hour(ts) < Len(cloud_cover_data)
            => data.wh_period[ts] =
                 Damped(baseline.wh_period[ts], cloud_cover_data[Hour(ts) + 1], 1)
       /\ (baseline.watts = (0 :> RInt(1000) @@ 1 :> RInt(2000))
             /\ cloud_cover_data = <<50, 100>>)
          => data.watts = (0 :> RInt(650) @@ 1 :> RInt(600))

C3_Witness ==
    /\ Adjusted
    /\ baseline.watts = (0 :> RInt(1000) @@ 1 :> RInt(2000))
    /\ cloud_cover_data = <<50, 100>>
    /\ data.watts = (0 :> RInt(650) @@ 1 :> RInt(600))
    /\ DOMAIN data.wh_period = {0, 23}
    /\ data.wh_period[0] = Rat[325, 2]
    /\ data.wh_period[23] = RInt(500)

AllHundred(series) == series # <<>> /\ \A i \in 1..Len(series) : series[i] = 100

\* C4 as stated: with a non-empty series of 100s of any length, every watts
\* and wh_period value is 0.3 times its baseline value, whatever its hour.
C4_Original_AllScaled ==
    (Adjusted /\ AllHundred(cloud_cover_data))
    => \A f \in HourlyFields : \A ts \in DOMAIN baseline[f] :
          data[f][ts] = RMul[baseline[f][ts], Rat[3, 10]]

\* C4 as amended: with a non-empty series of 100s, every watts and wh_period
\* value whose hour is below the length of the series is exactly 0.3 times its
\* baseline value (so every value is, when the series has 24 entries or more).
C4_UniformHundredInRange ==
    (Adjusted /\ AllHundred(cloud_cover_data))
    => \A f \in HourlyFields : \A ts \in DOMAIN baseline[f] :
          (Hour(ts) < Len(cloud_cover_data) \/ Len(cloud_cover_data) >= 24)
          => data[f][ts] = RMul[baseline[f][ts], Rat[3, 10]]

C4_Witness ==
    /\ Adjusted
    /\ AllHundred(cloud_cover_data)
    /\ Len(cloud_cover_data) = 24
    /\ DOMAIN baseline.watts = {5, 23}
    /\ data.watts[23] = RInt(600)
    /\ data.watts[5] = RInt(600)
    /\ DOMAIN baseline.wh_period = {1, 24}
    /\ data.wh_period[24] = RInt(75)

\* C5 as stated: with a non-empty series, every wh_days entry is its baseline
\* value times 1 - (m/100 * 0.7), m the mean of the first 24 entries, or of
\* all entries when there are fewer than 24.
C5_Original_DailyMean ==
    (Adjusted /\ cloud_cover_data # <<>>)
    => \A day \in DOMAIN baseline.wh_days :
          data.wh_days[day] =
            Damped(baseline.wh_days[day],
                   SumSeq(Prefix(cloud_cover_data, 24)),
                   Len(Prefix(cloud_cover_data, 24)))

\* the value a coordinate in one of the three accepted shapes stands for
IsShaped(raw) ==
    \/ raw.shape = "number"
    \/ raw.shape = "sequence" /\ Len(raw.items) = 1
    \/ raw.shape = "string" /\ raw \in { Bracketed(v) : v \in LatitudeValues \cup LongitudeValues }

Denoted(raw) ==
    IF raw.shape = "number" THEN raw.value
    ELSE IF raw.shape = "sequence" THEN raw.items[1]
    ELSE raw.chars[2].num

\* C6 as stated: a coordinate pair with latitude outside [-90, 90] or
\* longitude outside [-180, 180], however slightly, makes __init__ fail before
\* the forecast client exists, and no network request is ever sent.
C6_Original_OutOfRangeRejected ==
    (/\ setup # "new"
     /\ IsShaped(entry.latitude) /\ IsShaped(entry.longitude)
     /\ (~LatitudeOK(Denoted(entry.latitude)) \/ ~LongitudeOK(Denoted(entry.longitude))))
    => /\ setup = "failed"
       /\ init_error # NoError
       /\ forecast = None
       /\ network_calls = 0

\* C7 as stated: a valid coordinate given as a plain number, as a bracketed
\* string or as a one-element sequence is accepted in each shape and comes
\* out as the value the plain number gives.
C7_Original_ShapesAgree ==
    (/\ setup # "new"
     /\ IsShaped(entry.latitude) /\ IsShaped(entry.longitude)
     /\ LatitudeOK(Denoted(entry.latitude)) /\ LongitudeOK(Denoted(entry.longitude)))
    => /\ setup = "ready"
       /\ forecast.latitude = Round2(Denoted(entry.latitude))
       /\ forecast.longitude = Round2(Denoted(entry.longitude))

CycleFailures ==
    ForecastErrors \cup TransportErrors \cup {"Exception", "JSONDecodeError", "TypeError"}

\* C8: whatever a finished cycle raised for a failure inside it (the forecast
\* client, the HTTP status, the JSON body, the adjustment) is an UpdateFailed
\* that carries the original error as its cause; the only other thing a cycle
\* lets through is the cancellation of its task.
C8_OnlyUpdateFailedEscapes ==
    /\ raised # None
       => \/ raised.kind = "UpdateFailed" /\ raised.cause \in CycleFailures
          \/ raised = [kind |-> "CancelledError", cause |-> NoError]
    /\ (raised # None /\ raised.kind = "UpdateFailed") => ~last_update_success

C8_Witness ==
    /\ pc = "Idle"
    /\ raised = [kind |-> "UpdateFailed", cause |-> "TypeError"]
    /\ cloud_cover_data = <<0, Null>>
    /\ ~last_update_success

Phase ==
    IF pc = "Idle" THEN "Idle"
    ELSE IF pc = "adjust" THEN "Publishing" ELSE "Fetching"

\* C9: the cycle leaves Idle only for Fetching, enters Publishing only from
\* Fetching, leaves Publishing only for Idle, and every cycle that has
\* started is eventually back in Idle, given that each await returns or
\* raises.
C9_CycleOrder ==
    /\ [][ /\ Phase = "Idle" => Phase' \in {"Idle", "Fetching"}
           /\ Phase' = "Publishing" => Phase \in {"Fetching", "Publishing"}
           /\ Phase = "Publishing" => Phase' \in {"Publishing", "Idle"} ]_vars
    /\ (Phase # "Idle") ~> (Phase = "Idle")

C9_Witness ==
    /\ Phase = "Idle"
    /\ network_calls >= 2
    /\ data # None
    /\ last_update_success

\* C10 as stated: the diagnostics published after a cycle whose series was
\* empty differ from those published after a cycle that adjusted.
C10_Original_DegradationObservable ==
    published_diag["degraded"] \cap published_diag["adjusted"] = {}

\* what a sensor reads when it refreshes: the estimate the coordinator holds
PublishedEstimate == data

\* the estimates an adjustment that ran to its end can leave
CompleteEstimates ==
    { adjust_estimate_with_cloud_cover(p[1], p[2]).estimate :
        p \in { q \in CycleBaselines \X CycleSeries :
                  adjust_estimate_with_cloud_cover(q[1], q[2]).error = NoError } }

\* C11: at every point of every cycle, a cycle that failed inside the
\* adjustment loops included, the estimate a sensor reads is nothing yet or
\* the complete result of one adjustment, and a step changes it only to the
\* complete adjustment of the baseline of the cycle in progress; it never is
\* an estimate of which only some entries have been rewritten.
C11_PublishedIsComplete ==
    /\ [](PublishedEstimate = None \/ PublishedEstimate \in CompleteEstimates)
    /\ [][ PublishedEstimate' # PublishedEstimate
           => /\ pc = "adjust"
              /\ adjust_estimate_with_cloud_cover(baseline, cloud_cover_data).error = NoError
              /\ PublishedEstimate' =
                   adjust_estimate_with_cloud_cover(baseline, cloud_cover_data).estimate ]_vars

\* a cycle failed after the watts loop had rewritten an entry, and the sensors
\* still read the complete estimate of an earlier cycle
C11_Witness ==
    /\ pc = "Idle"
    /\ raised = [kind |-> "UpdateFailed", cause |-> "TypeError"]
    /\ cloud_cover_data = <<50, Null>>
    /\ estimate # baseline
    /\ estimate.watts[0] = RInt(650)
    /\ estimate.watts[1] = baseline.watts[1]
    /\ estimate \notin CompleteEstimates
    /\ PublishedEstimate # None
    /\ PublishedEstimate \in CompleteEstimates

\* a step in which one of the two fetches of the cycle fails
FetchFails ==
    \/ \E error \in ForecastErrors : EstimateFails(error)
    \/ \E error \in TransportErrors : CloudCoverFails(error)
    \/ \E status \in Statuses, body \in Bodies(CycleSeries) :
          /\ status # 200 \/ body.kind = "malformed"
          /\ CloudCoverResponds(status, body)

\* C12: the adjustment is entered only by the step in which the cloud-cover
\* fetch succeeds, with the baseline of this cycle already fetched; the local
\* estimate is rewritten only by the adjustment step; and a step in which a
\* fetch fails ends the cycle with UpdateFailed, the estimate not adjusted and
\* nothing published.
C12_AdjustAfterBothFetches ==
    /\ [][ (pc # "adjust" /\ pc' = "adjust")
           => /\ pc = "cloud_cover"
              /\ estimate \in CycleBaselines
              /\ estimate' = estimate
              /\ baseline' = estimate
              /\ \E body \in Bodies(CycleSeries) :
                    body.kind # "malformed" /\ CloudCoverResponds(200, body) ]_vars
    /\ [][ (estimate # None /\ estimate' # None /\ estimate' # estimate)
           => pc = "adjust" ]_vars
    /\ [][ FetchFails
           => /\ pc' = "Idle"
              /\ raised' # None
              /\ raised'.kind = "UpdateFailed"
              /\ estimate' = estimate
              /\ estimate' \in CycleBaselines \cup {None}
              /\ data' = data
              /\ published_diag' = published_diag ]_vars

\* the cloud-cover fetch of a cycle timed out after its baseline had arrived:
\* the baseline was left as fetched and the estimate of an earlier cycle is
\* still the published one
C12_Witness ==
    /\ pc = "Idle"
    /\ raised = [kind |-> "UpdateFailed", cause |-> "TimeoutError"]
    /\ estimate \in CycleBaselines
    /\ DOMAIN estimate.watts # {}
    /\ estimate = baseline
    /\ data # None
    /\ data # estimate
    /\ published_diag["adjusted"] # {}

\* C13: in every cycle the adjustment is given the baseline fetched in that
\* cycle, untouched, and a cycle that succeeds publishes that baseline
\* adjusted once with the series of that cycle, whatever earlier cycles
\* published: damping does not build up from one cycle to the next.
C13_AdjustedOncePerCycle ==
    /\ [](pc = "adjust" => (estimate \in CycleBaselines /\ estimate = baseline))
    /\ [](Adjusted
          => /\ baseline \in CycleBaselines
             /\ data = adjust_estimate_with_cloud_cover(baseline, cloud_cover_data).estimate
             /\ \A f \in HourlyFields : \A ts \in DOMAIN baseline[f] :
                   (Hour(ts) < Len(cloud_cover_data)
                      /\ cloud_cover_data[Hour(ts) + 1] # Null)
                   => data[f][ts] =
                        Damped(baseline[f][ts], cloud_cover_data[Hour(ts) + 1], 1))
    /\ [][ (pc = "adjust" /\ pc' = "Idle" /\ raised' = None)
           => data' = adjust_estimate_with_cloud_cover(baseline, cloud_cover_data).estimate
       ]_vars

\* the second cycle published after a first one had: its watts are the
\* baseline's damped once
C13_Witness ==
    /\ Adjusted
    /\ network_calls = 4
    /\ published_diag["degraded"] # {}
    /\ cloud_cover_data = <<50, 100>>
    /\ baseline.watts = (0 :> RInt(1000) @@ 1 :> RInt(2000))
    /\ data.watts = (0 :> RInt(650) @@ 1 :> RInt(600))
    /\ data.wh_period = (0 :> Rat[325, 2] @@ 1 :> RInt(150))

\* C14: after an adjustment with a non-empty series of fewer than 24 entries,
\* every watts and wh_period entry whose hour is at or beyond the length of
\* the series has its baseline value (no other entry of the series is applied
\* to it), and every entry whose hour is an index of the series is scaled by
\* the factor of that entry.
C14_OutOfRangeUntouched ==
    (Adjusted /\ cloud_cover_data # <<>> /\ Len(cloud_cover_data) < 24)
    => \A f \in HourlyFields : \A ts \in DOMAIN baseline[f] :
          IF Hour(ts) >= Len(cloud_cover_data)
          THEN data[f][ts] = baseline[f][ts]
          ELSE data[f][ts] =
                 Damped(baseline[f][ts], cloud_cover_data[Hour(ts) + 1], 1)

\* series [50, 100]: hours 1 (timestamps 1 and 25) scaled by 0.3, hour 23
\* (timestamps 47 and 23) untouched
C14_Witness ==
    /\ Adjusted
    /\ cloud_cover_data = <<50, 100>>
    /\ DOMAIN baseline.watts = {1, 25, 47}
    /\ data.watts[1] = RInt(600)
    /\ data.watts[25] = RInt(600)
    /\ data.watts[47] = RInt(2000)
    /\ DOMAIN baseline.wh_period = {0, 23}
    /\ data.wh_period[0] = Rat[325, 2]
    /\ data.wh_period[23] = baseline.wh_period[23]

\* a <= b, for fractions with positive denominators
RLeq(a, b) == a.n * b.d <= b.n * a.d

\* every entry of the series is a percentage
PercentSeries(series) == \A i \in 1..Len(series) : series[i] \in 0..100

Mappings == {"watts", "wh_period", "wh_days"}

\* C15: for a baseline without negative values and a series of percentages,
\* the adjustment raises nothing, leaves each of watts, wh_period and wh_days
\* with the keys it had, and leaves every value between 30% and 100% of its
\* baseline value: never above it and never negative.
C15_KeysKeptValuesBounded ==
    (/\ pc = "Idle"
     /\ baseline # None
     /\ PercentSeries(cloud_cover_data)
     /\ \A f \in Mappings : \A key \in DOMAIN baseline[f] : RLeq(RInt(0), baseline[f][key]))
    => /\ raised = None
       /\ data # None
       /\ \A f \in Mappings :
             /\ DOMAIN data[f] = DOMAIN baseline[f]
             /\ \A key \in DOMAIN baseline[f] :
                   /\ RLeq(RMul[baseline[f][key], Rat[3, 10]], data[f][key])
                   /\ RLeq(data[f][key], baseline[f][key])
                   /\ RLeq(RInt(0), data[f][key])

\* series [0, 100]: one watts value kept whole, one cut to 30%, the daily
\* values in between
C15_Witness ==
    /\ Adjusted
    /\ cloud_cover_data = <<0, 100>>
    /\ baseline.watts = (0 :> RInt(1000) @@ 1 :> RInt(2000))
    /\ data.watts = (0 :> RInt(1000) @@ 1 :> RInt(600))
    /\ DOMAIN baseline.wh_period = {1, 24}
    /\ data.wh_period = (1 :> RInt(150) @@ 24 :> RInt(250))
    /\ DOMAIN baseline.wh_days = {0, 1}
    /\ data.wh_days = (0 :> RInt(2330) @@ 1 :> RInt(4660))

=============================================================================
